---- MODULE Spec2Model ----
(***************************************************************************)
(* The local service supervisor of web-whisper's Tauri shell               *)
(* (frontend/src-tauri/src/main.rs): start_gradio_server,                  *)
(* get_server_info, stop_whisper_server and the window-close hook of       *)
(* main, with the operating system (ports, child processes, pipes, the     *)
(* HTTP endpoint) as the environment.                                      *)
(*                                                                         *)
(* Every access to one of the two Mutex cells, every OS call and every     *)
(* await point of a handler is one step of the task that runs it.          *)
(***************************************************************************)
EXTENDS Integers, Sequences, FiniteSets, TLC

\* ------------------------------------------------------------ bounds
\* Children the OS lets the application spawn (its process limit).
MaxSpawns == 2
\* Ports of the OS's ephemeral range that a bind to port 0 can hand out.
MaxEphemeral == 1
\* Lines one child writes, both streams together.
MaxLines == 2

\* ------------------------------------------------- program constants
DesiredPort == 7860
MaxAttempts == 30
LaunchPercent == 5
RampBase == 10
RampStep == 3
RampCap == 95
ReadyPercent == 100
KillSignal == 9
\* First port of the IANA dynamic range.
EphemeralBase == 49152

EphemeralPorts == EphemeralBase .. (EphemeralBase + MaxEphemeral - 1)
Pids == 1 .. MaxSpawns
Tasks == {"t1", "t2"}

\* ------------------------------------------------------ Rust values
\* Option<T>: None is the empty sequence, Some(v) a sequence of one.
None == << >>
Some(v) == << v >>
IsSome(o) == Len(o) = 1
Unwrap(o) == o[1]

\* Result<T, String>.
Ok(v) == [ok |-> TRUE, val |-> Some(v), err |-> ""]
Err(msg) == [ok |-> FALSE, val |-> None, err |-> msg]
\* Ok(()) of stop_whisper_server.
Unit == "()"

\* format!("http://127.0.0.1:{}", port)
UrlOf(port) == << "http://127.0.0.1:", port >>
default_url == UrlOf(DesiredPort)

ServerInfo(port) == [url |-> UrlOf(port), port |-> port, status |-> "running"]

\* RampPercent with the cap put at 100 instead of 95.
RampPercentCap100(attempt) ==
  LET percent == RampBase + attempt * RampStep
  IN IF percent > ReadyPercent THEN ReadyPercent ELSE percent

\* percent of a failed attempt: 10 + attempt * 3, capped at 95.
RampPercent(attempt) ==
  LET percent == RampBase + attempt * RampStep
  IN IF percent > RampCap THEN RampCap ELSE percent

\* ------------------------------------------------------------ state
VARIABLES
  server_state,   \* ServerState: Option<ServerInfo>
  process_state,  \* ProcessState: Option<u32>
  pc,             \* per task: the point its handler has reached
  local,          \* per task: the handler's local variables
  children,       \* per pid: the child process the OS runs
  progress,       \* per task: the percent of each engine-progress event its
                  \* call has emitted
  call,           \* per task: what its current call has observed and done
                  \* (history only: no handler reads it)
  prev,           \* the command, other than a query, that completed last
  pipes,          \* per pid and stream: lines written and not yet read
  written,        \* per pid and stream: lines the child has written
  published,      \* per pid and stream: engine-log events emitted
  readers,        \* per pid and stream: the reader thread
  guards          \* per Mutex: the task that holds its guard, or "free"

vars == << server_state, process_state, pc, local, children, progress,
           call, prev, pipes, written, published, readers, guards >>

\* What only the log relay changes.
logvars == << pipes, written, published, readers >>

Streams == {"stdout", "stderr"}

\* The two Mutex cells main manages.
Mutexes == {"server_state", "process_state"}

NoLocal == [chosen_port |-> 0, process_id |-> 0, server_url |-> << >>,
            attempt |-> 0, ready |-> FALSE, pid |-> None, port |-> 0]

\* The kill command of a call: none yet, or one the OS could not run.
NoKill == [signal |-> 0, pid |-> 0]
NotRun == [signal |-> -1, pid |-> 0]

\* The CommandEvent a call received last: none yet.
NoEvent == [kind |-> "none", line |-> << >>]

NoCall == [op |-> "none", entry_server |-> None, entry_process |-> None,
           precheck |-> "none", adopted |-> "none",
           desired |-> "none", assigned |-> "none",
           sidecar |-> "none", spawn |-> "none", spawned |-> None,
           replaced |-> None,
           arg_port |-> 0, targets |-> {}, probes |-> 0, oks |-> 0,
           inflight |-> 0, kill |-> NoKill, found |-> "none",
           event |-> NoEvent,
           result |-> Err("pending")]

NoPrev == [op |-> "none", ok |-> FALSE, val |-> None, spawned |-> None]

NoChild == [st |-> "unborn", port |-> 0]
\* A process that has ended listens on no port.
DeadChild == [st |-> "dead", port |-> 0]

Init ==
  /\ server_state = None
  /\ process_state = None
  /\ pc = [t \in Tasks |-> "idle"]
  /\ local = [t \in Tasks |-> NoLocal]
  /\ children = [p \in Pids |-> NoChild]
  /\ progress = [t \in Tasks |-> << >>]
  /\ call = [t \in Tasks |-> NoCall]
  /\ prev = NoPrev
  /\ pipes = [p \in Pids |-> [s \in Streams |-> << >>]]
  /\ written = [p \in Pids |-> [s \in Streams |-> << >>]]
  /\ published = [p \in Pids |-> [s \in Streams |-> << >>]]
  /\ readers = [p \in Pids |-> [s \in Streams |-> "none"]]
  /\ guards = [m \in Mutexes |-> "free"]

\* ------------------------------------------------------ environment
Serving(port) == {p \in Pids : children[p].st = "serving" /\ children[p].port = port}
Alive(p) == children[p].st \in {"starting", "serving"}

\* Who can be found listening on a port at the moment it is looked at: a
\* serving child; nobody; or, on port 7860, an unrelated program, which may
\* start and stop listening at any time while no child holds the port.
Occupants(port) ==
  IF Serving(port) # {} THEN {"child"}
  ELSE IF port = DesiredPort THEN {"nobody", "other"}
  ELSE {"nobody"}

\* What client.get(url).send().await can come to when occ listens: TRUE for
\* Ok with a success status, FALSE for anything else. A serving child answers
\* with success; the unrelated listener may answer either way; a port nobody
\* listens on refuses the connection.
Responses(occ) ==
  IF occ = "child" THEN {TRUE}
  ELSE IF occ = "other" THEN {TRUE, FALSE}
  ELSE {FALSE}

\* The child has bound its --server.port and serves HTTP.
ChildReady(p) ==
  /\ children[p].st = "starting"
  /\ "nobody" \in Occupants(children[p].port)
  /\ children' = [children EXCEPT ![p].st = "serving"]
  /\ UNCHANGED << server_state, process_state, pc, local, progress, call,
                  prev, logvars >>
  /\ UNCHANGED guards

\* The child exits by itself (a crash, a failed bind).
ChildExit(p) ==
  /\ Alive(p)
  /\ children' = [children EXCEPT ![p] = DeadChild]
  /\ UNCHANGED << server_state, process_state, pc, local, progress, call,
                  prev, logvars >>
  /\ UNCHANGED guards

\* ------------------------------------------------------------ helpers
\* Scoped with the guard bound outside the block, so that it outlives the step.
ScopedKept(m, t) ==
  /\ guards[m] = "free"
  /\ guards' = [guards EXCEPT ![m] = t]

\* { let guard = m.lock().unwrap(); .. }: lock() returns once no task holds
\* the guard of m, and the guard is dropped at the end of the block; the block
\* does nothing but read or write the cell, so it is part of one step.
Scoped(m, t) ==
  /\ guards[m] = "free"
  /\ guards' = guards

YesNo(b) == IF b THEN "yes" ELSE "no"

\* The port a URL built by UrlOf names.
PortOf(url) == url[2]

\* app_handle.emit("engine-progress", {percent, message})
Emit(t, percent) == [progress EXCEPT ![t] = Append(@, percent)]

\* The handler returns: its result is recorded and the task is done.
Finish(c, result) == [c EXCEPT !.result = result]

\* -------------------------------------------- start_gradio_server
\* The command is invoked: client.get(default_url).send() is issued.
StartCall(t) ==
  /\ pc[t] = "idle"
  /\ pc' = [pc EXCEPT ![t] = "s_precheck"]
  /\ call' = [call EXCEPT ![t] = [NoCall EXCEPT !.op = "start",
                                                !.entry_server = server_state,
                                                !.entry_process = process_state,
                                                !.inflight = 1]]
  /\ UNCHANGED << server_state, process_state, local, children, progress,
                  prev, logvars >>
  /\ UNCHANGED guards

\* The pre-check GET completes. A success status takes the fast path; anything
\* else goes on to env::current_exe(), which the OS may fail.
StartPrecheck(t) ==
  /\ pc[t] = "s_precheck"
  /\ \E occ \in Occupants(PortOf(default_url)) : \E ok \in Responses(occ) :
     LET seen == [call[t] EXCEPT !.precheck = YesNo(ok),
                                 !.adopted = IF ok THEN occ ELSE @,
                                 !.inflight = @ - 1]
     IN IF ok
          THEN /\ pc' = [pc EXCEPT ![t] = "s_fast"]
               /\ call' = [call EXCEPT ![t] = seen]
          ELSE \/ /\ pc' = [pc EXCEPT ![t] = "s_bind"]
                  /\ call' = [call EXCEPT ![t] = seen]
               \/ /\ pc' = [pc EXCEPT ![t] = "done"]
                  /\ call' = [call EXCEPT ![t] =
                                Finish(seen, Err("Failed to get current exe"))]
  /\ UNCHANGED << server_state, process_state, local, children, progress,
                  prev, logvars >>
  /\ UNCHANGED guards

\* FastInfo with a status of its own instead of "running".
FastInfoOtherStatus == [url |-> default_url, port |-> DesiredPort, status |-> "existing"]

\* The server_info the fast path builds.
FastInfo == [url |-> default_url, port |-> DesiredPort, status |-> "running"]

\* StartFast that also resets the tracked pid.
StartFastResetsHandle(t) ==
  /\ pc[t] = "s_fast"
  /\ server_state' = Some(FastInfo)
  /\ process_state' = None
  /\ pc' = [pc EXCEPT ![t] = "done"]
  /\ call' = [call EXCEPT ![t] = Finish(@, Ok(FastInfo))]
  /\ UNCHANGED << local, children, progress, prev, logvars >>
  /\ Scoped("server_state", t)

\* Found existing server: store ServerInfo{7860} and return it.
StartFast(t) ==
  /\ pc[t] = "s_fast"
  /\ server_state' = Some(FastInfo)
  /\ pc' = [pc EXCEPT ![t] = "done"]
  /\ call' = [call EXCEPT ![t] = Finish(@, Ok(FastInfo))]
  /\ UNCHANGED << process_state, local, children, progress, prev, logvars >>
  /\ Scoped("server_state", t)

\* Bindable with the bind's error ignored.
BindableUnchecked(occ) == TRUE

\* TcpListener::bind on loopback succeeds exactly on a port nobody listens on.
Bindable(occ) == occ = "nobody"

desired_port == DesiredPort

\* StartBindDesired that gives up when port 7860 is taken.
StartBindDesiredOnly(t) ==
  /\ pc[t] = "s_bind"
  /\ \E occ \in Occupants(desired_port) :
       /\ IF Bindable(occ)
            THEN /\ local' = [local EXCEPT ![t].chosen_port = desired_port]
                 /\ pc' = [pc EXCEPT ![t] = "s_spawn"]
                 /\ call' = [call EXCEPT ![t].desired = occ]
            ELSE /\ pc' = [pc EXCEPT ![t] = "done"]
                 /\ call' = [call EXCEPT ![t] =
                               Finish([@ EXCEPT !.desired = occ],
                                      Err("Failed to acquire a free port"))]
                 /\ UNCHANGED local
  /\ UNCHANGED << server_state, process_state, children, progress, prev,
                  logvars >>
  /\ UNCHANGED guards

\* TcpListener::bind(127.0.0.1:7860): Ok keeps the listener's port and drops
\* the listener, Err goes on to bind port 0.
StartBindDesired(t) ==
  /\ pc[t] = "s_bind"
  /\ \E occ \in Occupants(desired_port) :
       /\ IF Bindable(occ)
            THEN /\ local' = [local EXCEPT ![t].chosen_port = desired_port]
                 /\ pc' = [pc EXCEPT ![t] = "s_spawn"]
            ELSE /\ pc' = [pc EXCEPT ![t] = "s_bind0"]
                 /\ UNCHANGED local
       /\ call' = [call EXCEPT ![t].desired = occ]
  /\ UNCHANGED << server_state, process_state, children, progress, prev,
                  logvars >>
  /\ UNCHANGED guards

\* The ports a bind to port 0 can return: the OS hands out a port of its
\* ephemeral range that nobody listens on.
OsAssignable == {port \in EphemeralPorts : Occupants(port) = {"nobody"}}

\* TcpListener::bind(127.0.0.1:0): the OS assigns a port, or has none to give.
StartBindAny(t) ==
  /\ pc[t] = "s_bind0"
  /\ \/ \E port \in OsAssignable :
          /\ local' = [local EXCEPT ![t].chosen_port = port]
          /\ pc' = [pc EXCEPT ![t] = "s_spawn"]
          /\ call' = [call EXCEPT ![t].assigned =
                        YesNo(\A occ \in Occupants(port) : Bindable(occ))]
     \/ /\ pc' = [pc EXCEPT ![t] = "done"]
        /\ call' = [call EXCEPT ![t] =
                      Finish([@ EXCEPT !.assigned = "no"],
                             Err("Failed to acquire a free port"))]
        /\ UNCHANGED local
  /\ UNCHANGED << server_state, process_state, children, progress, prev,
                  logvars >>
  /\ UNCHANGED guards

\* The pid the OS gives a new child: one no process has had (none, once the
\* process limit is reached).
FreshPids ==
  {p \in Pids : children[p].st = "unborn"
                 /\ \A q \in Pids : q < p => children[q].st # "unborn"}

\* The --server.port argument of the spawned command.
PortArgument(t) == local[t].chosen_port

\* cmd.spawn() is Ok: the OS has created the child, with pid p and with the
\* pipes of its stdout and stderr.
SpawnAccepted(t, p) ==
  /\ children' = [children EXCEPT ![p] =
                    [st |-> "starting", port |-> PortArgument(t)]]
  /\ local' = [local EXCEPT ![t].process_id = p]
  /\ pc' = [pc EXCEPT ![t] = "s_store_pid"]
  /\ call' = [call EXCEPT ![t].spawn = "accepted",
                          ![t].spawned = Some(p),
                          ![t].arg_port = PortArgument(t)]
  /\ UNCHANGED << server_state, process_state >>

\* SpawnRefused that also resets the tracked pid.
SpawnRefusedClearsHandle(t, sidecar) ==
  /\ pc' = [pc EXCEPT ![t] = "done"]
  /\ call' = [call EXCEPT ![t] =
                Finish([@ EXCEPT !.sidecar = YesNo(sidecar), !.spawn = "refused"],
                       Err(IF sidecar THEN "Failed to spawn sidecar"
                                      ELSE "Failed to spawn Python process"))]
  /\ process_state' = None
  /\ UNCHANGED << children, local, server_state >>

\* cmd.spawn() is Err: map_err(..)? returns the error at once.
SpawnRefused(t, sidecar) ==
  /\ pc' = [pc EXCEPT ![t] = "done"]
  /\ call' = [call EXCEPT ![t] =
                Finish([@ EXCEPT !.sidecar = YesNo(sidecar), !.spawn = "refused"],
                       Err(IF sidecar THEN "Failed to spawn sidecar"
                                      ELSE "Failed to spawn Python process"))]
  /\ UNCHANGED << children, local, server_state, process_state >>

\* LaunchProgress with the launch reported as half done.
LaunchProgressHalf(t) == Emit(t, 50)

\* emit("engine-progress", {percent: 5, ..}) just before the spawn.
LaunchProgress(t) == Emit(t, LaunchPercent)

\* The launch event is emitted and cmd.spawn() runs: the sidecar when one of
\* the candidates exists, otherwise the Python fallback. The OS accepts the
\* spawn or refuses it.
StartSpawn(t) ==
  /\ pc[t] = "s_spawn"
  /\ progress' = LaunchProgress(t)
  /\ \/ \E p \in FreshPids : SpawnAccepted(t, p)
     \/ \E sidecar \in BOOLEAN : SpawnRefused(t, sidecar)
  /\ UNCHANGED << prev, logvars >>
  /\ UNCHANGED guards

\* StartStorePid that keeps a pid already tracked.
StartStorePidIfAbsent(t) ==
  /\ pc[t] = "s_store_pid"
  /\ process_state' = IF IsSome(process_state) THEN process_state
                      ELSE Some(local[t].process_id)
  /\ local' = [local EXCEPT ![t].server_url = UrlOf(local[t].chosen_port)]
  /\ pc' = [pc EXCEPT ![t] = "s_attach"]
  /\ call' = [call EXCEPT ![t].replaced = process_state]
  /\ UNCHANGED << server_state, children, progress, prev, logvars >>
  /\ Scoped("process_state", t)

\* *process_guard = Some(process_id); then server_url is formatted.
StartStorePid(t) ==
  /\ pc[t] = "s_store_pid"
  /\ process_state' = Some(local[t].process_id)
  /\ local' = [local EXCEPT ![t].server_url = UrlOf(local[t].chosen_port)]
  /\ pc' = [pc EXCEPT ![t] = "s_attach"]
  /\ call' = [call EXCEPT ![t].replaced = process_state]
  /\ UNCHANGED << server_state, children, progress, prev, logvars >>
  /\ Scoped("process_state", t)

\* StartAttach that joins the reader threads before the poll loop.
StartAttachJoins(t) ==
  /\ pc[t] = "s_attach"
  /\ IF readers[local[t].process_id]["stdout"] = "none"
       THEN /\ readers' = [readers EXCEPT ![local[t].process_id] =
                             [s \in Streams |-> "running"]]
            /\ UNCHANGED << local, pc >>
       ELSE /\ \A s \in Streams : readers[local[t].process_id][s] = "done"
            /\ local' = [local EXCEPT ![t].attempt = 1]
            /\ pc' = [pc EXCEPT ![t] = "s_poll"]
            /\ UNCHANGED readers
  /\ UNCHANGED << server_state, process_state, children, progress, call,
                  prev, pipes, written, published >>
  /\ UNCHANGED guards

\* StartAttach that starts the poll loop without the reader threads.
StartAttachSkipped(t) ==
  /\ pc[t] = "s_attach"
  /\ local' = [local EXCEPT ![t].attempt = 1]
  /\ pc' = [pc EXCEPT ![t] = "s_poll"]
  /\ UNCHANGED << server_state, process_state, children, progress, call,
                  prev, logvars >>
  /\ UNCHANGED guards

\* The two reader threads are spawned on the child's pipes; the poll loop
\* starts with attempt 1.
StartAttach(t) ==
  /\ pc[t] = "s_attach"
  /\ readers' = [readers EXCEPT ![local[t].process_id] =
                   [s \in Streams |-> "running"]]
  /\ local' = [local EXCEPT ![t].attempt = 1]
  /\ pc' = [pc EXCEPT ![t] = "s_poll"]
  /\ UNCHANGED << server_state, process_state, children, progress, call,
                  prev, pipes, written, published >>
  /\ UNCHANGED guards

\* client.get(&server_url).send() is issued for this attempt.
StartSendProbe(t) ==
  /\ pc[t] = "s_poll"
  /\ pc' = [pc EXCEPT ![t] = "s_probe"]
  /\ call' = [call EXCEPT ![t].probes = @ + 1,
                          ![t].targets = @ \cup {PortOf(local[t].server_url)},
                          ![t].inflight = @ + 1]
  /\ UNCHANGED << server_state, process_state, local, children, progress,
                  prev, logvars >>
  /\ UNCHANGED guards

\* ProbeSucceeded without the break: the loop goes on to the next attempt.
ProbeSucceededNoBreak(t) ==
  /\ progress' = Emit(t, ReadyPercent)
  /\ IF local[t].attempt < MaxAttempts
       THEN /\ local' = [local EXCEPT ![t].ready = TRUE, ![t].attempt = @ + 1]
            /\ pc' = [pc EXCEPT ![t] = "s_poll"]
       ELSE /\ local' = [local EXCEPT ![t].ready = TRUE]
            /\ pc' = [pc EXCEPT ![t] = "s_store_info"]
  /\ UNCHANGED << server_state >>

\* The loop's arm for a response with a success status.
ProbeSucceeded(t) ==
  /\ local' = [local EXCEPT ![t].ready = TRUE]
  /\ progress' = Emit(t, ReadyPercent)
  /\ pc' = [pc EXCEPT ![t] = "s_store_info"]
  /\ UNCHANGED << server_state >>

\* ProbeFailed without its progress event.
ProbeFailedSilent(t) ==
  /\ IF local[t].attempt < MaxAttempts
       THEN /\ local' = [local EXCEPT ![t].attempt = @ + 1]
            /\ pc' = [pc EXCEPT ![t] = "s_poll"]
       ELSE /\ pc' = [pc EXCEPT ![t] = "done"]
            /\ UNCHANGED local
  /\ UNCHANGED << server_state, progress >>

\* The loop's other arm: the ramp event, the sleep, and the next attempt; after
\* the last attempt the loop ends with ready still false and start returns Err.
ProbeFailed(t) ==
  /\ progress' = Emit(t, RampPercent(local[t].attempt))
  /\ IF local[t].attempt < MaxAttempts
       THEN /\ local' = [local EXCEPT ![t].attempt = @ + 1]
            /\ pc' = [pc EXCEPT ![t] = "s_poll"]
       ELSE /\ pc' = [pc EXCEPT ![t] = "done"]
            /\ UNCHANGED local
  /\ UNCHANGED << server_state >>

\* The probe of this attempt completes.
StartRecvProbe(t) ==
  /\ pc[t] = "s_probe"
  /\ \E occ \in Occupants(PortOf(local[t].server_url)) : \E ok \in Responses(occ) :
     LET seen == [call[t] EXCEPT !.inflight = @ - 1,
                                 !.oks = IF ok THEN @ + 1 ELSE @]
     IN /\ IF ok THEN ProbeSucceeded(t) ELSE ProbeFailed(t)
        /\ call' = [call EXCEPT ![t] =
                      IF pc'[t] = "done"
                        THEN Finish(seen, Err("Server failed to start or is not responding"))
                        ELSE seen]
  /\ UNCHANGED << process_state, children, prev, logvars >>
  /\ UNCHANGED guards

\* The server_info built after the loop.
PolledInfo(t) == [url |-> local[t].server_url, port |-> local[t].chosen_port,
                  status |-> "running"]

\* StartStoreInfo that updates the port of a ServerInfo already in the registry
\* and leaves its url.
StartStoreInfoInPlace(t) ==
  /\ pc[t] = "s_store_info"
  /\ server_state' = IF IsSome(server_state)
                       THEN Some([Unwrap(server_state) EXCEPT
                                    !.port = local[t].chosen_port])
                       ELSE Some(PolledInfo(t))
  /\ pc' = [pc EXCEPT ![t] = "done"]
  /\ call' = [call EXCEPT ![t] = Finish(@, Ok(PolledInfo(t)))]
  /\ UNCHANGED << process_state, local, children, progress, prev, logvars >>
  /\ Scoped("server_state", t)

\* StartStoreInfo that keeps a ServerInfo already in the registry.
StartStoreInfoOnce(t) ==
  /\ pc[t] = "s_store_info"
  /\ server_state' = IF IsSome(server_state) THEN server_state
                     ELSE Some(PolledInfo(t))
  /\ pc' = [pc EXCEPT ![t] = "done"]
  /\ call' = [call EXCEPT ![t] = Finish(@, Ok(PolledInfo(t)))]
  /\ UNCHANGED << process_state, local, children, progress, prev, logvars >>
  /\ Scoped("server_state", t)

\* *state_guard = Some(server_info.clone()); Ok(server_info)
StartStoreInfo(t) ==
  /\ pc[t] = "s_store_info"
  /\ server_state' = Some(PolledInfo(t))
  /\ pc' = [pc EXCEPT ![t] = "done"]
  /\ call' = [call EXCEPT ![t] = Finish(@, Ok(PolledInfo(t)))]
  /\ UNCHANGED << process_state, local, children, progress, prev, logvars >>
  /\ Scoped("server_state", t)

\* ------------------------------------------------ get_server_info
\* state_guard.clone(), then Some(info) => Ok(info), None => Err.
QueryResult(info) ==
  IF IsSome(info) THEN Ok(Unwrap(info)) ELSE Err("Server not started")

get_server_info(t) ==
  /\ pc[t] = "idle"
  /\ pc' = [pc EXCEPT ![t] = "done"]
  /\ call' = [call EXCEPT ![t] =
                Finish([NoCall EXCEPT !.op = "query",
                                      !.entry_server = server_state,
                                      !.entry_process = process_state],
                       QueryResult(server_state))]
  /\ UNCHANGED << server_state, process_state, local, children, progress,
                  prev, pipes, written, published, readers >>
  /\ Scoped("server_state", t)

\* ------------------------------------------- stop_whisper_server
\* The command the handler runs: kill -9 <pid> (taskkill /F /PID <pid>).
KillCommand(pid) == [signal |-> KillSignal, pid |-> pid]

\* What the command does to the processes once it runs: SIGKILL ends a live
\* process at once; for a pid that has exited it only reports an error in its
\* exit status, which .output() does not turn into Err.
KillEffect(pid) ==
  [children EXCEPT ![pid] = IF Alive(pid) THEN DeadChild ELSE @]

\* StopNotFound that reports the stop as done.
StopNotFoundOk == Ok(Unit)

\* The else arm of if let Some(pid) = process_id.
StopNotFound == Err("No server process found")

\* process_guard.clone(): the handler reads the tracked pid and, finding none,
\* returns Err("No server process found").
StopCall(t) ==
  /\ pc[t] = "idle"
  /\ local' = [local EXCEPT ![t].pid = process_state]
  /\ LET entered == [NoCall EXCEPT !.op = "stop",
                                   !.entry_server = server_state,
                                   !.entry_process = process_state]
     IN IF IsSome(process_state)
          THEN /\ pc' = [pc EXCEPT ![t] = "k_kill"]
               /\ call' = [call EXCEPT ![t] = entered]
          ELSE /\ pc' = [pc EXCEPT ![t] = "done"]
               /\ call' = [call EXCEPT ![t] =
                             Finish(entered, StopNotFound)]
  /\ UNCHANGED << server_state, process_state, children, progress, prev,
                  pipes, written, published, readers >>
  /\ Scoped("process_state", t)

\* What the kill command finds under the pid: the process, or no such process.
KillFound(pid) == IF Alive(pid) THEN "alive" ELSE "gone"

\* StopKill that returns Err when the command reports no such process.
StopKillStrict(t) ==
  /\ pc[t] = "k_kill"
  /\ \/ /\ Alive(Unwrap(local[t].pid))
        /\ children' = KillEffect(Unwrap(local[t].pid))
        /\ pc' = [pc EXCEPT ![t] = "k_clear"]
        /\ call' = [call EXCEPT ![t].kill = KillCommand(Unwrap(local[t].pid)),
                                ![t].found = KillFound(Unwrap(local[t].pid))]
     \/ /\ ~Alive(Unwrap(local[t].pid))
        /\ pc' = [pc EXCEPT ![t] = "done"]
        /\ call' = [call EXCEPT ![t] =
                      Finish([@ EXCEPT !.kill = KillCommand(Unwrap(local[t].pid)),
                                       !.found = KillFound(Unwrap(local[t].pid))],
                             Err("Failed to kill process"))]
        /\ UNCHANGED children
     \/ /\ pc' = [pc EXCEPT ![t] = "done"]
        /\ call' = [call EXCEPT ![t] =
                      Finish([@ EXCEPT !.kill = NotRun], Err("Failed to kill process"))]
        /\ UNCHANGED children
  /\ UNCHANGED << server_state, process_state, local, progress, prev, logvars >>
  /\ UNCHANGED guards

\* StopKill that forgets the tracked pid when the command cannot be run.
StopKillForgets(t) ==
  /\ pc[t] = "k_kill"
  /\ \/ /\ children' = KillEffect(Unwrap(local[t].pid))
        /\ pc' = [pc EXCEPT ![t] = "k_clear"]
        /\ call' = [call EXCEPT ![t].kill = KillCommand(Unwrap(local[t].pid)),
                                ![t].found = KillFound(Unwrap(local[t].pid))]
        /\ UNCHANGED process_state
     \/ /\ pc' = [pc EXCEPT ![t] = "done"]
        /\ call' = [call EXCEPT ![t] =
                      Finish([@ EXCEPT !.kill = NotRun], Err("Failed to kill process"))]
        /\ process_state' = None
        /\ UNCHANGED children
  /\ UNCHANGED << server_state, local, progress, prev, logvars >>
  /\ UNCHANGED guards

\* Command::new("kill").args(["-9", pid]).output(): the command runs, or the OS
\* cannot run it and map_err(..)? returns Err.
StopKill(t) ==
  /\ pc[t] = "k_kill"
  /\ \/ /\ children' = KillEffect(Unwrap(local[t].pid))
        /\ pc' = [pc EXCEPT ![t] = "k_clear"]
        /\ call' = [call EXCEPT ![t].kill = KillCommand(Unwrap(local[t].pid)),
                                ![t].found = KillFound(Unwrap(local[t].pid))]
     \/ /\ pc' = [pc EXCEPT ![t] = "done"]
        /\ call' = [call EXCEPT ![t] =
                      Finish([@ EXCEPT !.kill = NotRun], Err("Failed to kill process"))]
        /\ UNCHANGED children
  /\ UNCHANGED << server_state, process_state, local, progress, prev, logvars >>
  /\ UNCHANGED guards

\* StopClear that leaves the tracked pid in place.
StopClearSkipped(t) ==
  /\ pc[t] = "k_clear"
  /\ pc' = [pc EXCEPT ![t] = "done"]
  /\ call' = [call EXCEPT ![t] = Finish(@, Ok(Unit))]
  /\ UNCHANGED << server_state, process_state, local, children, progress, prev,
                  logvars >>
  /\ UNCHANGED guards

\* *process_guard = None; Ok(())
StopClear(t) ==
  /\ pc[t] = "k_clear"
  /\ process_state' = None
  /\ pc' = [pc EXCEPT ![t] = "done"]
  /\ call' = [call EXCEPT ![t] = Finish(@, Ok(Unit))]
  /\ UNCHANGED << server_state, local, children, progress, prev, logvars >>
  /\ Scoped("process_state", t)

\* ------------------------------------- main: the window-close hook
\* CloseRequested: the hook reads the tracked pid.
HookCall(t) ==
  /\ pc[t] = "idle"
  /\ local' = [local EXCEPT ![t].pid = process_state]
  /\ LET entered == [NoCall EXCEPT !.op = "hook",
                                   !.entry_server = server_state,
                                   !.entry_process = process_state]
     IN IF IsSome(process_state)
          THEN /\ pc' = [pc EXCEPT ![t] = "h_kill"]
               /\ call' = [call EXCEPT ![t] = entered]
          ELSE /\ pc' = [pc EXCEPT ![t] = "done"]
               /\ call' = [call EXCEPT ![t] = Finish(entered, Ok(Unit))]
  /\ UNCHANGED << server_state, process_state, children, progress, prev,
                  pipes, written, published, readers >>
  /\ Scoped("process_state", t)

\* let _ = Command::new("kill")...output(): the result is dropped, and the
\* hook writes nothing back to process_state.
HookKill(t) ==
  /\ pc[t] = "h_kill"
  /\ \/ /\ children' = KillEffect(Unwrap(local[t].pid))
        /\ call' = [call EXCEPT ![t] =
                      Finish([@ EXCEPT !.kill = KillCommand(Unwrap(local[t].pid)),
                                       !.found = KillFound(Unwrap(local[t].pid))],
                             Ok(Unit))]
     \/ /\ call' = [call EXCEPT ![t] = Finish([@ EXCEPT !.kill = NotRun], Ok(Unit))]
        /\ UNCHANGED children
  /\ pc' = [pc EXCEPT ![t] = "done"]
  /\ UNCHANGED << server_state, process_state, local, progress, prev, logvars >>
  /\ UNCHANGED guards

\* ------------------------------------------------------ the caller
\* The caller takes the handler's result; the task can run the next command.
Return(t) ==
  /\ pc[t] = "done"
  /\ pc' = [pc EXCEPT ![t] = "idle"]
  /\ prev' = IF call[t].op = "query" THEN prev
                ELSE [op |-> call[t].op, ok |-> call[t].result.ok,
                      val |-> call[t].result.val,
                      spawned |-> call[t].spawned]
  /\ call' = [call EXCEPT ![t] = NoCall]
  /\ local' = [local EXCEPT ![t] = NoLocal]
  /\ progress' = [progress EXCEPT ![t] = << >>]
  /\ UNCHANGED << server_state, process_state, children, logvars >>
  /\ UNCHANGED guards

\* ------------------------------------------------------- log relay
\* The bytes a line can be made of: an ASCII letter, and 0xFF, which no UTF-8
\* text contains.
LineBytes == {97, 255}
LineSet == {<< b >> : b \in LineBytes}

\* Lines the child has written so far, both streams together.
LinesWritten(p) == Len(written[p]["stdout"]) + Len(written[p]["stderr"])

\* The child writes one newline-terminated line to one of its pipes.
ChildWrite(p, s, line) ==
  /\ Alive(p)
  /\ LinesWritten(p) < MaxLines
  /\ pipes' = [pipes EXCEPT ![p][s] = Append(@, line)]
  /\ written' = [written EXCEPT ![p][s] = Append(@, line)]
  /\ UNCHANGED << server_state, process_state, pc, local, children,
                  progress, call, prev, published, readers >>
  /\ UNCHANGED guards

\* String::from_utf8 accepts the line (single-byte sequences: ASCII only).
ValidUtf8(line) == \A i \in 1 .. Len(line) : line[i] < 128

\* One item of reader.lines(): Ok(line) for UTF-8 text, Err(InvalidData)
\* otherwise; the line's bytes are consumed either way.
ReadLine(line) == IF ValidUtf8(line) THEN Ok(line) ELSE Err("InvalidData")

\* app_for_logs.emit("engine-log", {stream, line})
LogEvent(s, line) == [stream |-> s, line |-> line]

\* What one item of reader.lines().flatten() adds to the events of stream s:
\* flatten() yields the Ok items and passes over the Err ones.
Relayed(s, item) ==
  IF item.ok THEN << LogEvent(s, Unwrap(item.val)) >> ELSE << >>

\* One turn of a reader thread's for loop: the next line of the pipe, or the
\* end of the loop once the pipe is empty and its write end is closed.
ReaderStep(p, s) ==
  /\ readers[p][s] = "running"
  /\ IF pipes[p][s] # << >>
       THEN /\ pipes' = [pipes EXCEPT ![p][s] = Tail(@)]
            /\ published' = [published EXCEPT ![p][s] =
                               @ \o Relayed(s, ReadLine(Head(pipes[p][s])))]
            /\ UNCHANGED readers
       ELSE /\ ~Alive(p)
            /\ readers' = [readers EXCEPT ![p][s] = "done"]
            /\ UNCHANGED << pipes, published >>
  /\ UNCHANGED << server_state, process_state, pc, local, children,
                  progress, call, prev, written >>
  /\ UNCHANGED guards

\* ------------------------------------ main_complex.rs: start_whisper_server
\* The text of an output line, as the pieces the handler's searches tell
\* apart: the announcement "Running on ", the line feed, a blank, the host part
\* of a url (it has a ':' of its own, after "http"), a ':', digits, and words.
Announcement == "Running on "
LineFeed == "LF"
Blank == " "
Host == "http://127.0.0.1"
Colon == ":"

\* The value of a run of digits, as parse::<u16>() reads it: 99999 does not fit.
U16Max == 65535
DigitsValue(piece) ==
  CASE piece = "7860" -> 7860
    [] piece = "7861" -> 7861
    [] piece = "99999" -> 99999
    [] OTHER -> -1

\* The stdout and stderr lines the child may write.
StdoutLines ==
  { << Announcement, Host, Colon, "7860", LineFeed >>,
    << "info", Announcement, Blank, Host, Colon, "7861", Blank, LineFeed, "info" >>,
    << Announcement, Host, Colon, "7860" >>,
    << LineFeed, Announcement, Host, Colon, "7860" >>,
    << Announcement, LineFeed >>,
    << Announcement, Blank, LineFeed >>,
    << Announcement, Host, LineFeed >>,
    << Announcement, Host, Colon, "99999", LineFeed >>,
    << "info", LineFeed >>,
    << "error", LineFeed >> }

StderrLines ==
  { << "error", LineFeed >>, << "info", "Error", LineFeed >>,
    << "ERROR", LineFeed >>, << "info", LineFeed >> }

\* What rx.recv().await can return: Some(event), or None once the stream ended.
CommandEvents ==
  [kind : {"Stdout"}, line : StdoutLines]
    \cup [kind : {"Stderr"}, line : StderrLines]
    \cup [kind : {"Terminated", "Error", "Closed"}, line : {<< >>}]

\* str::find: the place of the first occurrence, 0 for None.
Find(text, piece) ==
  IF \E i \in DOMAIN text : text[i] = piece
    THEN CHOOSE i \in DOMAIN text :
           text[i] = piece /\ \A j \in 1 .. (i - 1) : text[j] # piece
    ELSE 0

\* str::trim.
RECURSIVE TrimStart(_)
TrimStart(text) ==
  IF text # << >> /\ Head(text) = Blank THEN TrimStart(Tail(text)) ELSE text

RECURSIVE TrimEnd(_)
TrimEnd(text) ==
  IF text # << >> /\ text[Len(text)] = Blank
    THEN TrimEnd(SubSeq(text, 1, Len(text) - 1))
    ELSE text

Trim(text) == TrimEnd(TrimStart(text))

\* UrlPart without the search for the line feed: the rest of the line.
UrlPartToLineEnd(line) ==
  LET url_start == Find(line, Announcement)
  IN IF url_start = 0 THEN None
     ELSE Some(Trim(SubSeq(line, url_start + 1, Len(line))))

\* The arm for Stdout: the text after the first "Running on " up to the first
\* line feed after it, trimmed; None when either is missing.
UrlPart(line) ==
  LET url_start == Find(line, Announcement)
      url_part == SubSeq(line, url_start + 1, Len(line))
      url_end == Find(url_part, LineFeed)
  IN IF url_start = 0 \/ url_end = 0
       THEN None
       ELSE Some(Trim(SubSeq(url_part, 1, url_end - 1)))

\* server_url.rfind(':') and the parse of what follows it: the port stays 0
\* unless what follows the last ':' is digits that fit a u16.
ParsedPort(url) ==
  LET colons == {i \in DOMAIN url : url[i] \in {Colon, Host}}
  IN IF colons = {} THEN 0
     ELSE LET port_start == CHOOSE i \in colons : \A j \in colons : j <= i
              rest == SubSeq(url, port_start + 1, Len(url))
          IN IF /\ url[port_start] = Colon
                /\ Len(rest) = 1
                /\ DigitsValue(rest[1]) >= 0
                /\ DigitsValue(rest[1]) <= U16Max
               THEN DigitsValue(rest[1])
               ELSE 0

\* line_str.contains("error") || line_str.contains("Error")
ReportsError(line) == \E i \in DOMAIN line : line[i] \in {"error", "Error"}

\* The command is invoked; current_exe() may fail.
WhisperCall(t) ==
  /\ pc[t] = "idle"
  /\ \/ /\ pc' = [pc EXCEPT ![t] = "w_spawn"]
        /\ call' = [call EXCEPT ![t] = [NoCall EXCEPT !.op = "whisper",
                                                      !.entry_server = server_state]]
     \/ /\ pc' = [pc EXCEPT ![t] = "done"]
        /\ call' = [call EXCEPT ![t] =
                      [NoCall EXCEPT !.op = "whisper",
                                     !.entry_server = server_state,
                                     !.result = Err("Failed to get current exe")]]
  /\ UNCHANGED << server_state, process_state, local, children, progress,
                  prev, logvars, guards >>

\* shell.command(..).spawn(): the event channel rx, or the spawn error.
WhisperSpawn(t) ==
  /\ pc[t] = "w_spawn"
  /\ \/ /\ pc' = [pc EXCEPT ![t] = "w_recv"]
        /\ call' = [call EXCEPT ![t].spawn = "accepted"]
     \/ /\ pc' = [pc EXCEPT ![t] = "done"]
        /\ call' = [call EXCEPT ![t] =
                      Finish([@ EXCEPT !.spawn = "refused"],
                             Err("Failed to spawn process"))]
  /\ UNCHANGED << server_state, process_state, local, children, progress,
                  prev, logvars, guards >>

\* One turn of the while-let loop: rx.recv().await has returned.
WhisperRecv(t) ==
  /\ pc[t] = "w_recv"
  /\ \E event \in CommandEvents :
       LET seen == [call[t] EXCEPT !.event = event]
       IN CASE event.kind = "Stdout" /\ IsSome(UrlPart(event.line)) ->
                 LET server_url == Unwrap(UrlPart(event.line))
                 IN /\ local' = [local EXCEPT ![t].server_url = server_url,
                                              ![t].port = ParsedPort(server_url)]
                    /\ pc' = [pc EXCEPT ![t] = "w_store"]
                    /\ call' = [call EXCEPT ![t] = seen]
            [] event.kind = "Stderr" /\ ReportsError(event.line) ->
                 /\ pc' = [pc EXCEPT ![t] = "done"]
                 /\ call' = [call EXCEPT ![t] =
                               Finish(seen, Err("Server startup error"))]
                 /\ UNCHANGED local
            [] event.kind = "Terminated" ->
                 /\ pc' = [pc EXCEPT ![t] = "done"]
                 /\ call' = [call EXCEPT ![t] =
                               Finish(seen, Err("Server terminated unexpectedly"))]
                 /\ UNCHANGED local
            [] event.kind = "Closed" ->
                 /\ pc' = [pc EXCEPT ![t] = "w_store"]
                 /\ call' = [call EXCEPT ![t] = seen]
                 /\ UNCHANGED local
            [] OTHER ->
                 /\ call' = [call EXCEPT ![t] = seen]
                 /\ UNCHANGED << pc, local >>
  /\ UNCHANGED << server_state, process_state, children, progress, prev,
                  logvars, guards >>

WhisperInfo(t) == [url |-> local[t].server_url, port |-> local[t].port,
                   status |-> "running"]

\* After the loop: the empty-url error, or the registry write and Ok.
WhisperStore(t) ==
  /\ pc[t] = "w_store"
  /\ pc' = [pc EXCEPT ![t] = "done"]
  /\ IF local[t].server_url = << >>
       THEN /\ call' = [call EXCEPT ![t] =
                          Finish(@, Err("Failed to get server URL from output"))]
            /\ UNCHANGED << server_state, guards >>
       ELSE /\ Scoped("server_state", t)
            /\ server_state' = Some(WhisperInfo(t))
            /\ call' = [call EXCEPT ![t] = Finish(@, Ok(WhisperInfo(t)))]
  /\ UNCHANGED << process_state, local, children, progress, prev, logvars >>

start_whisper_server(t) ==
  \/ WhisperCall(t)
  \/ WhisperSpawn(t)
  \/ WhisperRecv(t)
  \/ WhisperStore(t)

\* -------------------------------------------------- specifications
Start(t) ==
  \/ StartCall(t)
  \/ StartPrecheck(t)
  \/ StartFast(t)
  \/ StartBindDesired(t)
  \/ StartBindAny(t)
  \/ StartSpawn(t)
  \/ StartStorePid(t)
  \/ StartAttach(t)
  \/ StartSendProbe(t)
  \/ StartRecvProbe(t)
  \/ StartStoreInfo(t)

Stop(t) == StopCall(t) \/ StopKill(t) \/ StopClear(t)

Hook(t) == HookCall(t) \/ HookKill(t)

Environment ==
  \E p \in Pids : ChildReady(p) \/ ChildExit(p)

LogRelay ==
  \/ \E p \in Pids, s \in Streams, line \in LineSet : ChildWrite(p, s, line)
  \/ \E p \in Pids, s \in Streams : ReaderStep(p, s)

\* One caller: the commands run one after another.
SeqTasks == {"t1"}

SeqNext ==
  \/ \E t \in SeqTasks : Start(t) \/ get_server_info(t) \/ Stop(t) \/ Hook(t) \/ Return(t)
  \/ Environment

SeqSpec == Init /\ [][SeqNext]_vars

\* One start call, with the child writing and the log relay running.
LogNext ==
  \/ \E t \in SeqTasks : Start(t)
  \/ Environment
  \/ LogRelay

LogSpec == Init /\ [][LogNext]_vars

\* LogSpec with the handler's task always scheduled again and every HTTP request
\* it awaits completing; nothing is assumed of the children or of the reader
\* threads.
LiveSpec == LogSpec /\ \A t \in SeqTasks : WF_vars(Start(t))

\* The window's event handler runs on the main thread, beside the commands.
CloseTasks == Tasks \ SeqTasks

\* The commands of one caller, and the window closed once at any moment.
ShutdownNext ==
  \/ \E t \in SeqTasks : Start(t) \/ Stop(t) \/ Return(t)
  \/ \E t \in CloseTasks : Hook(t)
  \/ Environment

ShutdownSpec == Init /\ [][ShutdownNext]_vars

\* One caller's start commands, and queries invoked beside them.
QueryNext ==
  \/ \E t \in SeqTasks : Start(t) \/ Return(t)
  \/ \E t \in Tasks \ SeqTasks : get_server_info(t) \/ Return(t)
  \/ Environment

QuerySpec == Init /\ [][QueryNext]_vars

\* One caller's start commands, and stop commands invoked beside them.
OverlapNext ==
  \/ \E t \in SeqTasks : Start(t) \/ Return(t)
  \/ \E t \in Tasks \ SeqTasks : Stop(t) \/ Return(t)
  \/ Environment

OverlapSpec == Init /\ [][OverlapNext]_vars

\* main_complex.rs: one caller's start commands, one after another.
ComplexNext == \E t \in SeqTasks : start_whisper_server(t) \/ Return(t)

ComplexSpec == Init /\ [][ComplexNext]_vars

\* One caller's start commands; beside them stop commands, queries and the
\* window-close hook.
AnyNext ==
  \/ \E t \in SeqTasks : Start(t) \/ Return(t)
  \/ \E t \in CloseTasks : Stop(t) \/ get_server_info(t) \/ Hook(t) \/ Return(t)
  \/ Environment

AnySpec == Init /\ [][AnyNext]_vars

\* Two start commands invoked side by side, one call each.
RaceNext ==
  \/ \E t \in Tasks : Start(t)
  \/ Environment

RaceSpec == Init /\ [][RaceNext]_vars

\* ----------------------------------------------------------- claims
\* Task t's handler of command op has returned and the caller has not yet
\* taken the result.
Returned(t, op) == pc[t] = "done" /\ call[t].op = op

\* The command completed before this one was a start that returned info.
AfterStartOf(info) == prev.op = "start" /\ prev.ok /\ prev.val = Some(info)

\* The command completed before this one was a stop that returned Ok.
AfterStop == prev.op = "stop" /\ prev.ok

\* The positions of the percent=100 events among task t's progress events.
Hundreds(t) == {i \in DOMAIN progress[t] : progress[t][i] = ReadyPercent}

\* C1: a start that follows, with no stop in between, a start that returned
\* ServerInfo{7860}, and whose pre-check GET of http://127.0.0.1:7860 got a
\* success status, returns that same ServerInfo and spawns no child.
C1_IdempotentStart ==
  \A t \in Tasks :
    (Returned(t, "start") /\ AfterStartOf(ServerInfo(DesiredPort))
       /\ call[t].precheck = "yes")
    => /\ call[t].result.ok
       /\ call[t].result.val = prev.val
       /\ call[t].result.val = Some(ServerInfo(DesiredPort))
       /\ call[t].spawn = "none"
       /\ call[t].spawned = None

\* The second start has returned while the child of the first, still tracked,
\* answers on port 7860.
C1_Witness ==
  \E t \in Tasks :
    /\ Returned(t, "start")
    /\ AfterStartOf(ServerInfo(DesiredPort))
    /\ call[t].precheck = "yes"
    /\ call[t].adopted = "child"
    /\ IsSome(process_state)
    /\ Unwrap(process_state) \in Serving(DesiredPort)

\* C2: a get_server_info that runs after a successful stop, with no start in
\* between, returns no ServerInfo.
C2_QueryEmptyAfterStop ==
  \A t \in Tasks :
    (Returned(t, "query") /\ AfterStop) => ~call[t].result.ok

\* C3: a start that follows a successful stop, whose spawn the OS accepted and
\* one of whose readiness probes got a success status, returns Ok with the
\* ServerInfo of its port, has that ServerInfo in the registry, and has the pid
\* of the child it spawned (not the one tracked before) in the handle.
C3_StartAfterStop ==
  \A t \in Tasks :
    (Returned(t, "start") /\ AfterStop /\ call[t].spawn = "accepted"
       /\ call[t].oks > 0)
    => /\ call[t].result = Ok(ServerInfo(call[t].arg_port))
       /\ server_state = Some(ServerInfo(call[t].arg_port))
       /\ process_state = call[t].spawned
       /\ IsSome(call[t].spawned)
       /\ call[t].entry_process = None

\* A start after a stop has spawned a second child and returned Ok while the
\* registry still held the ServerInfo of the first start.
C3_Witness ==
  \E t \in Tasks :
    /\ Returned(t, "start")
    /\ AfterStop
    /\ call[t].spawn = "accepted"
    /\ call[t].oks > 0
    /\ IsSome(call[t].entry_server)
    /\ call[t].spawned = Some(2)

\* C4: in a start call, at most one percent=100 event is emitted; once a
\* readiness probe has got a success status that event is the last one, every
\* probe sent has its event (none was sent after it), no probe is in flight,
\* the loop is over, and the call returns Ok.
C4_FirstSuccessEndsLoop ==
  \A t \in Tasks :
    call[t].op = "start"
    => /\ Cardinality(Hundreds(t)) <= 1
       /\ (Hundreds(t) # {} => call[t].oks > 0)
       /\ (call[t].oks > 0
           => /\ call[t].oks = 1
              /\ Hundreds(t) = {Len(progress[t])}
              /\ call[t].probes = Len(progress[t]) - 1
              /\ call[t].inflight = 0
              /\ pc[t] \in {"s_store_info", "done"}
              /\ (pc[t] = "done" => call[t].result.ok))

\* A start has returned Ok after a probe that succeeded on a later attempt
\* than the first.
C4_Witness ==
  \E t \in Tasks :
    /\ Returned(t, "start")
    /\ call[t].oks = 1
    /\ call[t].probes > 1
    /\ call[t].result.ok

\* C5: a start call whose 30 readiness probes all failed returns Err, has
\* emitted no percent=100 event, and leaves the registry as it found it.
C5_TimeoutReturnsErr ==
  \A t \in Tasks :
    (Returned(t, "start") /\ call[t].probes = MaxAttempts /\ call[t].oks = 0)
    => /\ ~call[t].result.ok
       /\ Hundreds(t) = {}
       /\ Len(progress[t]) = MaxAttempts + 1
       /\ server_state = call[t].entry_server

\* A start has returned after 30 failed probes.
C5_Witness ==
  \E t \in Tasks :
    /\ Returned(t, "start")
    /\ call[t].probes = MaxAttempts
    /\ call[t].oks = 0

\* C6: once a start call has chosen its port: if nobody listened on 7860 when
\* it tried to bind it, the port is 7860; if somebody did, the port is not 7860
\* and nobody listened on it when the OS assigned it.
C6_PortAllocation ==
  \A t \in Tasks :
    (call[t].op = "start" /\ local[t].chosen_port # 0)
    => /\ call[t].desired \in {"nobody", "child", "other"}
       /\ (call[t].desired = "nobody" => local[t].chosen_port = DesiredPort)
       /\ (call[t].desired # "nobody"
           => /\ local[t].chosen_port # DesiredPort
              /\ call[t].assigned = "yes")

\* A start call found port 7860 taken and was assigned an ephemeral port.
C6_Witness ==
  \E t \in Tasks :
    /\ call[t].op = "start"
    /\ call[t].desired = "other"
    /\ local[t].chosen_port \in EphemeralPorts

\* C7: a start call that found an unrelated listener on port 7860 (at its
\* pre-check or at its bind) and returned, picked a port E other than 7860,
\* gave E to the child, probed only E, and returned Ok only with ServerInfo{E}.
C7_EphemeralPortEverywhere ==
  \A t \in Tasks :
    (Returned(t, "start")
       /\ (call[t].adopted = "other" \/ call[t].desired = "other"))
    => /\ call[t].result.ok
          => /\ local[t].chosen_port \in EphemeralPorts
             /\ call[t].result.val = Some(ServerInfo(local[t].chosen_port))
             /\ server_state = Some(ServerInfo(local[t].chosen_port))
       /\ call[t].spawn = "accepted" => call[t].arg_port = local[t].chosen_port
       /\ call[t].targets \subseteq {local[t].chosen_port}
       /\ DesiredPort \notin call[t].targets

\* What the code does keep of C7: a start call that got past the pre-check and
\* found the unrelated listener at its bind uses one ephemeral port throughout.
OnePortWhenNotAdopted ==
  \A t \in Tasks :
    (call[t].op = "start" /\ call[t].desired = "other")
    => /\ call[t].adopted = "none"
       /\ local[t].chosen_port # 0 => local[t].chosen_port \in EphemeralPorts
       /\ call[t].spawn = "accepted" => call[t].arg_port = local[t].chosen_port
       /\ call[t].targets \subseteq {local[t].chosen_port}
       /\ (pc[t] = "done" /\ call[t].result.ok)
          => /\ call[t].result.val = Some(ServerInfo(local[t].chosen_port))
             /\ server_state = Some(ServerInfo(local[t].chosen_port))

\* C8: a start call whose Python fallback (no sidecar exists) the OS refused
\* to spawn returns Err, has sent no readiness probe, and leaves the tracked
\* pid and the registry as it found them.
C8_SpawnFailure ==
  \A t \in Tasks :
    (Returned(t, "start") /\ call[t].spawn = "refused" /\ call[t].sidecar = "no")
    => /\ call[t].result = Err("Failed to spawn Python process")
       /\ call[t].probes = 0
       /\ call[t].targets = {}
       /\ process_state = call[t].entry_process
       /\ server_state = call[t].entry_server

\* The refused start ran while a pid was tracked and a ServerInfo registered.
C8_Witness ==
  \E t \in Tasks :
    /\ Returned(t, "start")
    /\ call[t].spawn = "refused"
    /\ call[t].sidecar = "no"
    /\ IsSome(call[t].entry_process)
    /\ IsSome(call[t].entry_server)

\* The lines of a sequence of engine-log events.
LinesOf(events) == [i \in DOMAIN events |-> events[i].line]

\* C9: once a reader thread has reached the end of its stream, the engine-log
\* events it published carry that stream's name and exactly the lines the
\* child wrote to the stream, in the order written.
C9_LogRelay ==
  \A p \in Pids, s \in Streams :
    readers[p][s] = "done"
    => /\ Len(published[p][s]) = Len(written[p][s])
       /\ LinesOf(published[p][s]) = written[p][s]
       /\ \A i \in DOMAIN published[p][s] : published[p][s][i].stream = s

\* What the code does keep of C9: at the end of a stream the events published
\* are, in order, the lines written that are UTF-8 text.
TextLinesRelayed ==
  \A p \in Pids, s \in Streams :
    readers[p][s] = "done"
    => LinesOf(published[p][s]) = SelectSeq(written[p][s], ValidUtf8)

\* C10: a stop that found a tracked pid and whose kill command ran has run
\* kill -9 on that pid, leaves that process dead and the handle absent, and
\* returns Ok; a stop that follows a successful stop fails with the not-found
\* error.
C10_StopKillsAndClears ==
  \A t \in Tasks :
    Returned(t, "stop")
    => /\ (call[t].kill \notin {NoKill, NotRun}
           => /\ call[t].kill = [signal |-> KillSignal,
                                 pid |-> Unwrap(call[t].entry_process)]
              /\ ~Alive(call[t].kill.pid)
              /\ call[t].result = Ok(Unit)
              /\ process_state = None)
       /\ (AfterStop => call[t].result = Err("No server process found"))

\* A stop has returned right after a stop that killed a live child.
C10_Witness ==
  \E t \in Tasks :
    /\ Returned(t, "stop")
    /\ AfterStop
    /\ \E p \in Pids : children[p].st = "dead"

\* C11: a stop that found no tracked pid returns Err("No server process found"),
\* has run no kill command, and leaves the handle absent and the registry as it
\* found it.
C11_StopNotFound ==
  \A t \in Tasks :
    (Returned(t, "stop") /\ call[t].entry_process = None)
    => /\ call[t].result = Err("No server process found")
       /\ call[t].kill = NoKill
       /\ call[t].found = "none"
       /\ process_state = None
       /\ server_state = call[t].entry_server

\* A stop found no tracked pid while the registry held a ServerInfo.
C11_Witness ==
  \E t \in Tasks :
    /\ Returned(t, "stop")
    /\ call[t].entry_process = None
    /\ IsSome(call[t].entry_server)

\* C12: a stop whose kill command ran and found no process under the tracked
\* pid (the child had already exited) returns Ok and leaves the handle absent.
C12_StopOfExitedChild ==
  \A t \in Tasks :
    (Returned(t, "stop") /\ call[t].found = "gone")
    => /\ call[t].result = Ok(Unit)
       /\ process_state = None
       /\ call[t].kill = KillCommand(Unwrap(call[t].entry_process))

\* A stop has returned whose tracked child had exited by itself before the
\* kill command ran.
C12_Witness ==
  \E t \in Tasks :
    /\ Returned(t, "stop")
    /\ call[t].found = "gone"
    /\ IsSome(call[t].entry_process)
    /\ children[Unwrap(call[t].entry_process)].st = "dead"

\* C13: a get_server_info that found the registry empty returns a success
\* (with no ServerInfo), one that found a ServerInfo returns Ok with exactly
\* that value, and the query leaves the registry and the handle as they were.
C13_QueryAbsentNotError ==
  \A t \in Tasks :
    Returned(t, "query")
    => /\ call[t].result.ok
       /\ (IsSome(call[t].entry_server)
           => call[t].result.val = call[t].entry_server)
       /\ server_state = call[t].entry_server
       /\ process_state = call[t].entry_process

\* What the code does keep of C13: the query of a published ServerInfo returns
\* it, the query of an empty registry returns Err("Server not started"), and
\* neither changes the registry or the handle.
QueryReadsRegistry ==
  \A t \in Tasks :
    Returned(t, "query")
    => /\ (IsSome(call[t].entry_server)
           => call[t].result = Ok(Unwrap(call[t].entry_server)))
       /\ (call[t].entry_server = None
           => call[t].result = Err("Server not started"))
       /\ server_state = call[t].entry_server
       /\ process_state = call[t].entry_process

\* C14: the engine-progress events of a start call have percents between 0 and
\* 100 that never decrease, and the last one is 100 exactly when the poll loop
\* has ended with ready = true.
C14_ProgressMonotone ==
  \A t \in Tasks :
    (call[t].op = "start" /\ progress[t] # << >>)
    => /\ \A i \in DOMAIN progress[t] : progress[t][i] \in 0 .. 100
       /\ \A i \in DOMAIN progress[t] :
            i > 1 => progress[t][i - 1] <= progress[t][i]
       /\ (progress[t][Len(progress[t])] = 100) <=> local[t].ready
       /\ local[t].ready <=> call[t].oks > 0

\* A start call has returned after the launch event, at least one ramp event
\* and the final percent=100 event.
C14_Witness ==
  \E t \in Tasks :
    /\ Returned(t, "start")
    /\ Len(progress[t]) >= 3
    /\ progress[t][1] = LaunchPercent
    /\ progress[t][Len(progress[t])] = 100
    /\ local[t].ready

\* Task t's stop or hook is under way and has run the kill command on pid p.
HasKilled(t, p) ==
  /\ pc[t] = "k_clear"
  /\ call[t].kill = KillCommand(p)

\* This step is task u running the kill command on pid p.
KillStep(u, p) ==
  /\ call[u].op \in {"stop", "hook"}
  /\ call[u].kill = NoKill
  /\ call'[u].kill = KillCommand(p)

\* C15: no stop or hook runs the kill command on a pid while another stop,
\* still under way, has already run it on that same pid.
C15_ExclusiveTermination ==
  [][\A t \in Tasks, u \in Tasks, p \in Pids :
       (t # u /\ HasKilled(t, p)) => ~KillStep(u, p)]_vars

\* What the code does keep of C15: each terminator kills the pid it read from
\* the handle, and only a stop writes the handle, setting it to None.
TerminatorsKillWhatTheyRead ==
  \A t \in Tasks :
    (call[t].op \in {"stop", "hook"} /\ call[t].kill \notin {NoKill, NotRun})
    => /\ call[t].kill = KillCommand(Unwrap(call[t].entry_process))
       /\ local[t].pid = call[t].entry_process

\* C16: a window-close hook that found a tracked pid has run the kill command
\* on it, leaves that process dead, and leaves no pid tracked.
C16_HookClearsHandle ==
  \A t \in Tasks :
    (Returned(t, "hook") /\ IsSome(call[t].entry_process))
    => /\ (call[t].kill # NotRun
           => /\ call[t].kill = KillCommand(Unwrap(call[t].entry_process))
              /\ ~Alive(Unwrap(call[t].entry_process)))
       /\ process_state = None

\* What the code does keep of C16: the hook runs the kill command on the pid
\* it read, and writes neither the handle nor the registry.
HookKillsTracked ==
  \A t \in Tasks :
    (Returned(t, "hook") /\ IsSome(call[t].entry_process))
    => /\ (call[t].kill # NotRun
           => /\ call[t].kill = KillCommand(Unwrap(call[t].entry_process))
              /\ ~Alive(Unwrap(call[t].entry_process)))
       /\ process_state = call[t].entry_process
       /\ server_state = call[t].entry_server

\* No command is under way: every task is idle or has its result ready.
Quiescent == \A t \in Tasks : pc[t] \in {"idle", "done"}

\* C17: with commands run one after another, whenever no command is under way
\* every live child the application spawned is the one whose pid is tracked;
\* and a start that found a live child tracked and spawned another one has
\* not left the first one running.
C17_NoOrphan ==
  /\ Quiescent => \A p \in Pids : Alive(p) => process_state = Some(p)
  /\ \A t \in Tasks :
       (Returned(t, "start") /\ IsSome(call[t].entry_process)
          /\ IsSome(call[t].spawned))
       => ~Alive(Unwrap(call[t].entry_process))

\* The percent the claim gives the failed attempt k.
ClaimedRamp(k) == IF 10 + 3 * k < 95 THEN 10 + 3 * k ELSE 95

\* C18: in a start call the k-th event after the launch event belongs to poll
\* attempt k (k in 1..30), and every attempt whose probe has completed has its
\* one event; the event of a failed attempt is min(95, 10 + 3k), between 10 and
\* 95, and the event of the successful attempt is 100.
C18_OneEventPerAttempt ==
  \A t \in Tasks :
    (call[t].op = "start" /\ call[t].probes > 0)
    => /\ Len(progress[t]) = 1 + call[t].probes - call[t].inflight
       /\ call[t].probes <= 30
       /\ \A k \in 1 .. (Len(progress[t]) - 1) :
            LET percent == progress[t][k + 1]
                succeeded == call[t].oks > 0 /\ k = call[t].probes
            IN /\ succeeded => percent = 100
               /\ ~succeeded => /\ percent = ClaimedRamp(k)
                                /\ percent >= 10
                                /\ percent <= 95
                                /\ percent # 100

\* A start call has returned whose first 29 probes failed, the last ones at
\* the cap, and whose 30th succeeded.
C18_Witness ==
  \E t \in Tasks :
    /\ Returned(t, "start")
    /\ call[t].probes = MaxAttempts
    /\ call[t].oks = 1
    /\ progress[t][MaxAttempts] = 95
    /\ progress[t][MaxAttempts + 1] = 100

\* The command completed before this one was a start that spawned child p and
\* returned Err: the readiness timeout, the only error after the spawn.
AfterTimeoutOf(p) ==
  /\ prev.op = "start"
  /\ ~prev.ok
  /\ prev.spawned = Some(p)

\* C19: a start call that returned after 30 failed probes has run no kill
\* command and leaves the pid of the child it spawned in the handle; a stop
\* that follows it finds that pid, and once its kill command has run that
\* child is dead.
C19_TimeoutKeepsChild ==
  \A t \in Tasks :
    /\ (Returned(t, "start") /\ call[t].probes = MaxAttempts /\ call[t].oks = 0)
       => /\ IsSome(call[t].spawned)
          /\ process_state = call[t].spawned
          /\ call[t].kill = NoKill
    /\ (Returned(t, "start") /\ ~call[t].result.ok /\ IsSome(call[t].spawned))
       => /\ call[t].probes = MaxAttempts
          /\ call[t].oks = 0
          /\ call[t].result = Err("Server failed to start or is not responding")
    /\ \A p \in Pids :
         (Returned(t, "stop") /\ AfterTimeoutOf(p))
         => /\ call[t].entry_process = Some(p)
            /\ (call[t].kill # NotRun
                => /\ call[t].kill = KillCommand(p)
                   /\ ~Alive(p)
                   /\ call[t].result = Ok(Unit))

\* A stop that followed a timed-out start has found its child still alive and
\* killed it.
C19_Witness ==
  \E t \in Tasks, p \in Pids :
    /\ Returned(t, "stop")
    /\ AfterTimeoutOf(p)
    /\ call[t].found = "alive"
    /\ call[t].kill = KillCommand(p)

\* C20: when a start call stores its pid over the pid that a concurrent start
\* call had spawned and stored, both calls had got past the pre-check and
\* spawned a child of their own, and from then on the handle holds the pid
\* stored last and not the other one.
C20_StartsRace ==
  \A t \in Tasks, u \in Tasks :
    (t # u /\ call[t].op = "start" /\ call[u].op = "start"
       /\ IsSome(call[u].spawned) /\ call[t].replaced = call[u].spawned)
    => /\ call[t].precheck = "no"
       /\ call[u].precheck = "no"
       /\ IsSome(call[t].spawned)
       /\ call[t].spawned # call[u].spawned
       /\ process_state = call[t].spawned
       /\ process_state # call[u].spawned

\* Two concurrent start calls have each spawned a child; both children are
\* alive, and the handle holds the pid of one while the other is untracked.
C20_Witness ==
  \E t \in Tasks, u \in Tasks :
    /\ t # u
    /\ call[t].op = "start"
    /\ call[u].op = "start"
    /\ call[t].precheck = "no"
    /\ call[u].precheck = "no"
    /\ IsSome(call[u].spawned)
    /\ call[t].replaced = call[u].spawned
    /\ process_state = call[t].spawned
    /\ Alive(Unwrap(call[t].spawned))
    /\ Alive(Unwrap(call[u].spawned))

\* Task t is suspended at an await: the pre-check request, a readiness probe,
\* or the sleep between two attempts.
Suspended(t) == pc[t] \in {"s_precheck", "s_probe", "s_poll"}

\* The Mutex guards task t holds.
HeldBy(t) == {m \in Mutexes : guards[m] = t}

\* The Mutex that the next step of task t's command locks.
Wants(t) ==
  CASE pc[t] \in {"s_fast", "s_store_info"} -> {"server_state"}
    [] pc[t] \in {"s_store_pid", "k_clear"} -> {"process_state"}
    [] OTHER -> {}

\* Some tasks each wait for a Mutex whose guard one of them holds.
Deadlocked ==
  \E S \in (SUBSET Tasks) \ {{}} :
    \A t \in S : \E m \in Wants(t) : guards[m] \in S

Complete(info) ==
  /\ info.status = "running"
  /\ info.port \in {DesiredPort} \cup EphemeralPorts
  /\ info.url = << "http://127.0.0.1:", info.port >>

\* C22: the registry holds nothing or a complete ServerInfo; a start call that
\* has not returned Ok has not written it, and one that has returned Ok wrote
\* the value it returned; and a query, whatever start call runs beside it,
\* returns nothing or a complete ServerInfo, the one the registry held when
\* the query read it.
C22_RegistryComplete ==
  /\ IsSome(server_state) => Complete(Unwrap(server_state))
  /\ \A t \in Tasks :
       /\ (call[t].op = "start" /\ ~(pc[t] = "done" /\ call[t].result.ok))
          => server_state = call[t].entry_server
       /\ (Returned(t, "start") /\ call[t].result.ok)
          => /\ server_state = call[t].result.val
             /\ Complete(Unwrap(call[t].result.val))
       /\ (Returned(t, "query") /\ call[t].result.ok)
          => /\ call[t].result.val = call[t].entry_server
             /\ Complete(Unwrap(call[t].result.val))

\* A query has returned the ServerInfo of one start call, read while a later
\* start call was under way, which has since replaced it by its own.
C22_Witness ==
  \E t \in Tasks, u \in Tasks :
    /\ Returned(t, "query")
    /\ call[t].result.ok
    /\ Returned(u, "start")
    /\ call[u].result.ok
    /\ call[u].entry_server = call[t].result.val
    /\ server_state # call[t].result.val

\* Task t's start call has got past the store of its child's pid.
PidStored(t) == pc[t] \in {"s_attach", "s_poll", "s_probe", "s_store_info", "done"}

\* Task t's start call has got past the spawn of the reader threads.
ReadersAttached(t) == pc[t] \in {"s_poll", "s_probe", "s_store_info", "done"}

\* C23: in a start call that has spawned a child: the port was chosen before
\* the spawn; until the pid is stored nothing else has happened; the readers
\* are attached only after the pid is stored, and the first probe is sent only
\* after the readers are attached and with the pid tracked; the registry is
\* not written before a probe has got a success status; and the call returns
\* Ok only with the registry written.
C23_StartOrder ==
  \A t \in Tasks :
    (call[t].op = "start" /\ call[t].spawn = "accepted")
    => LET p == Unwrap(call[t].spawned)
       IN /\ local[t].chosen_port # 0
          /\ call[t].arg_port = local[t].chosen_port
          /\ pc[t] = "s_store_pid"
             => /\ readers[p]["stdout"] = "none"
                /\ call[t].probes = 0
                /\ process_state = call[t].entry_process
                /\ server_state = call[t].entry_server
          /\ readers[p]["stdout"] # "none" <=> ReadersAttached(t)
          /\ readers[p]["stderr"] # "none" <=> ReadersAttached(t)
          /\ ReadersAttached(t) => PidStored(t)
          /\ PidStored(t) => process_state = Some(p)
          /\ call[t].probes > 0 => ReadersAttached(t)
          /\ call[t].oks = 0 => server_state = call[t].entry_server
          /\ pc[t] # "done" => server_state = call[t].entry_server
          /\ (pc[t] = "done" /\ call[t].result.ok)
             => /\ call[t].oks > 0
                /\ server_state = call[t].result.val

\* A start call that spawned a child has returned Ok after more than one
\* probe, with the registry changed from what it held before.
C23_Witness ==
  \E t \in Tasks :
    /\ Returned(t, "start")
    /\ call[t].spawn = "accepted"
    /\ call[t].result.ok
    /\ call[t].probes > 1
    /\ IsSome(call[t].entry_server)
    /\ server_state # call[t].entry_server

\* The HTTP requests of task t's start call: none or one is in flight, one
\* exactly while the call awaits a response; the pre-check is the only request
\* sent before the poll loop, and the loop sends at most 30.
RequestsBounded(t) ==
  /\ call[t].inflight \in {0, 1}
  /\ call[t].inflight = 1 <=> pc[t] \in {"s_precheck", "s_probe"}
  /\ call[t].probes <= 30
  /\ call[t].probes > 0 => call[t].precheck = "no"
  /\ pc[t] = "s_precheck" => call[t].probes = 0
  /\ call[t].probes = local[t].attempt - (IF pc[t] = "s_poll" THEN 1 ELSE 0)
     \/ local[t].attempt = 0

\* C24: with every HTTP request completing and the handler always scheduled
\* again, whatever the reader threads and the children do, a start call that
\* has been invoked returns, with Ok or with Err; and throughout it has at most
\* one request in flight, one pre-check and at most 30 readiness probes.
C24_StartTerminates ==
  \A t \in SeqTasks :
    /\ [](call[t].op = "start" => RequestsBounded(t))
    /\ (call[t].op = "start") ~> (pc[t] = "done" /\ call[t].result # Err("pending"))

\* A start call has returned after 30 probes while a reader thread of its
\* child still had a line to read.
C24_Witness ==
  \E t \in SeqTasks :
    /\ Returned(t, "start")
    /\ call[t].probes = 30
    /\ \E s \in Streams :
         /\ readers[Unwrap(call[t].spawned)][s] = "running"
         /\ pipes[Unwrap(call[t].spawned)][s] # << >>

\* C25: a start call that found port 7860 taken and got a port from the OS
\* has an ephemeral port and went on to the spawn; a start call returns the
\* port error only when the bind of 7860 failed and the OS then assigned no
\* port, and then it has spawned nothing, emitted nothing, and left the handle
\* and the registry as it found them.
C25_PortContention ==
  \A t \in Tasks :
    Returned(t, "start")
    => /\ (call[t].desired \in {"other", "child"} /\ call[t].assigned = "yes")
          => /\ local[t].chosen_port \in EphemeralPorts
             /\ call[t].spawn # "none"
             /\ call[t].result # Err("Failed to acquire a free port")
       /\ call[t].result = Err("Failed to acquire a free port")
          => /\ call[t].desired \in {"other", "child"}
             /\ call[t].assigned = "no"
             /\ call[t].spawn = "none"
             /\ call[t].spawned = None
             /\ progress[t] = << >>
             /\ call[t].probes = 0
             /\ process_state = call[t].entry_process
             /\ server_state = call[t].entry_server

\* A start call has returned the port error while a pid was tracked and a
\* ServerInfo registered.
C25_Witness ==
  \E t \in Tasks :
    /\ Returned(t, "start")
    /\ call[t].result = Err("Failed to acquire a free port")
    /\ IsSome(call[t].entry_process)
    /\ IsSome(call[t].entry_server)

\* C26: a stop whose kill command could not be run returns
\* Err("Failed to kill process") with no kill command run in the call, and
\* leaves the pid it read in the handle.
C26_KillCannotRun ==
  \A t \in Tasks :
    (Returned(t, "stop") /\ call[t].kill = NotRun)
    => /\ call[t].result = Err("Failed to kill process")
       /\ call[t].found = "none"
       /\ IsSome(call[t].entry_process)
       /\ process_state = call[t].entry_process
       /\ server_state = call[t].entry_server

\* A stop whose kill command could not be run has returned with the tracked
\* child still alive.
C26_Witness ==
  \E t \in Tasks :
    /\ Returned(t, "stop")
    /\ call[t].kill = NotRun
    /\ IsSome(process_state)
    /\ Alive(Unwrap(process_state))

\* The command completed before this one was a start that took the fast path.
AfterFastStart == prev.op = "start" /\ prev.ok /\ prev.spawned = None

\* C27: a start call whose pre-check got a success status returns
\* Ok(ServerInfo{7860}) with that value in the registry, has spawned no child,
\* sent no readiness probe and emitted no progress event, and leaves the handle
\* as it found it; a stop that follows it and finds no pid tracked returns the
\* not-found error while the registry still says "running".
C27_FastPathFrame ==
  \A t \in Tasks :
    /\ (Returned(t, "start") /\ call[t].precheck = "yes")
       => /\ call[t].result = Ok(ServerInfo(DesiredPort))
          /\ server_state = Some(ServerInfo(DesiredPort))
          /\ call[t].spawn = "none"
          /\ call[t].spawned = None
          /\ call[t].probes = 0
          /\ progress[t] = << >>
          /\ process_state = call[t].entry_process
    /\ (Returned(t, "stop") /\ AfterFastStart /\ call[t].entry_process = None)
       => /\ prev.val = Some(ServerInfo(DesiredPort))
          /\ call[t].result = Err("No server process found")
          /\ server_state = Some(ServerInfo(DesiredPort))
          /\ Unwrap(server_state).status = "running"

\* A stop has failed with the not-found error right after a fast-path start
\* that returned "running" with no pid tracked.
C27_Witness ==
  \E t \in Tasks :
    /\ Returned(t, "stop")
    /\ AfterFastStart
    /\ call[t].entry_process = None
    /\ call[t].result = Err("No server process found")

\* This step is task t's stop, which read and killed pid p, writing the handle.
ClearStep(t, p) ==
  /\ call[t].op = "stop"
  /\ call[t].kill = KillCommand(p)
  /\ pc[t] = "k_clear"
  /\ pc'[t] = "done"

\* C28: a stop that read and killed pid p does not, when it clears the handle,
\* erase another pid whose child is alive (one a start call stored since the
\* stop read the handle).
C28_StopClearsOnlyItsOwn ==
  [][\A t \in Tasks, p \in Pids, q \in Pids :
       (ClearStep(t, p) /\ q # p /\ process_state = Some(q) /\ Alive(q))
       => process_state' = process_state]_vars

\* What the code does keep of C28: a stop's clearing step leaves the handle
\* absent, whatever it held.
StopClearsWhatever ==
  [][\A t \in Tasks, p \in Pids : ClearStep(t, p) => process_state' = None]_vars

\* The line has "Running on " and a line feed somewhere after it.
Announces(line) ==
  \E i \in DOMAIN line, j \in DOMAIN line :
    i < j /\ line[i] = "Running on " /\ line[j] = "LF"

\* An event that ends the wait: an announcing stdout line, a stderr line with
\* "error" or "Error", Terminated, or the end of the stream.
Decisive(event) ==
  \/ event.kind = "Stdout" /\ Announces(event.line)
  \/ event.kind = "Stderr"
       /\ \E i \in DOMAIN event.line : event.line[i] \in {"error", "Error"}
  \/ event.kind \in {"Terminated", "Closed"}

\* C29: the event-driven start returns Ok, with the ServerInfo it returns in
\* the registry, only when the event it received last is a stdout line with
\* "Running on <url>" and a line feed after it; once the event received is
\* Terminated, a stderr line with "error" or "Error", or the end of the stream,
\* the call returns Err; a call that has not returned Ok leaves the registry as
\* it found it; and the call leaves its wait for events only in a step that
\* receives one of these events, so that without them it never returns.
C29_EventDrivenStart ==
  /\ [](\A t \in Tasks :
          call[t].op = "whisper"
          => /\ (pc[t] = "done" /\ call[t].result.ok)
                => /\ call[t].event.kind = "Stdout"
                   /\ Announces(call[t].event.line)
                   /\ server_state = call[t].result.val
                   /\ Unwrap(server_state).status = "running"
             /\ ~(pc[t] = "done" /\ call[t].result.ok)
                => server_state = call[t].entry_server
             /\ (call[t].event.kind \in {"Terminated", "Closed"}
                   \/ (call[t].event.kind = "Stderr" /\ Decisive(call[t].event)))
                => /\ pc[t] \in {"w_store", "done"}
                   /\ pc[t] = "done" => ~call[t].result.ok
             /\ pc[t] = "w_store" => Decisive(call[t].event))
  /\ [][\A t \in Tasks :
          (pc[t] = "w_recv" /\ pc'[t] # "w_recv") => Decisive(call'[t].event)]_vars

\* An event-driven start has returned Ok with port 7861, read from a line
\* with text around the url, and replaced the ServerInfo of an earlier start.
C29_Witness ==
  \E t \in Tasks :
    /\ Returned(t, "whisper")
    /\ call[t].result.ok
    /\ Unwrap(call[t].result.val).port = 7861
    /\ Unwrap(call[t].result.val).url = << "http://127.0.0.1", ":", "7861" >>
    /\ IsSome(call[t].entry_server)
    /\ call[t].entry_server # server_state

====
